---------------------------- MODULE Spec2Model ----------------------------
(***************************************************************************)
(* Model of the to-do backend: the task table, the task repository, the    *)
(* task service, the extraction client and the HTTP handlers of package    *)
(* api that cmd/server/main.go wires together.                             *)
(*                                                                         *)
(* One action is one HTTP request handled to completion.  The environment  *)
(* chooses the authenticated user, the request body, the answer of the     *)
(* model provider and, for every statement sent to the database, whether   *)
(* the database fails it.                                                  *)
(***************************************************************************)
EXTENDS Integers, Sequences, FiniteSets, TLC

(***************************************************************************)
(* Bounds.                                                                 *)
(***************************************************************************)
\* uuid.New() is modelled as a counter: the n-th call returns n.  No more
\* than MaxIds identifiers are issued in one behaviour.
MaxIds == 2

\* The longest candidate list the provider returns.
MaxCands == 2

(***************************************************************************)
(* Values.                                                                 *)
(***************************************************************************)
Users == {"u1", "u2"}

\* uuid.Nil, the zero value of uuid.UUID
NilUUID == 0

TaskIds == 1..MaxIds

\* time.Time{} : the zero time, for which IsZero() is true
ZeroTime == 0

\* a *time.Time that is nil
NilTime == -1

\* the time gorm's autoCreateTime writes into created_at
Now == 9

\* a nil *string in a request body
NilString == "<nil>"

\* the time strings that occur in request bodies and provider output
DateA == "2025-11-20T00:00:00Z"

DateB == "2025-12-01T10:30:00Z"

BadDate == "tomorrow"

\* errors
NoErr == ""

ErrRecordNotFound == "record not found"

ErrDB == "db error"

ErrDuplicateKey == "duplicate key value violates unique constraint"

ErrNotFoundOrUnauthorized == "task not found or unauthorized"

ErrExtractPrefix == "failed to extract tasks with LLM: "

ErrTransport == "failed to send request to OpenAI"

\* Mutant: the error names neither the status nor the body.
ErrStatus_NoDetail(status, body) == "openai api error"

\* fmt.Errorf("openai api error: status %d, body: %s", resp.StatusCode, respBody)
ErrStatus(status, body) == "openai api error: status " \o ToString(status) \o ", body: " \o body

ErrDecode == "failed to decode OpenAI response"

ErrUnmarshal == "failed to unmarshal tasks from LLM response"

ErrInvalidDueDate == "Invalid due_date format"

ErrUserExists == "user already exists"

ErrInvalidCredentials == "invalid credentials"

\* the zero value of models.User
ZeroUser == [id |-> NilUUID, email |-> "", password_hash |-> ""]

\* the zero value of models.Task
ZeroTask ==
    [id |-> NilUUID, user_id |-> "", title |-> "", description |-> "",
     due_date |-> NilTime, priority |-> "", raw_text |-> "",
     completed |-> FALSE, created_at |-> ZeroTime]


(***************************************************************************)
(* Request bodies and provider output: JSON objects as the client sends    *)
(* them.  A body may carry keys the bound struct has no field for, such as *)
(* user_id; binding drops them.                                            *)
(***************************************************************************)
\* JSON bodies of POST /tasks; NilString: the body does not name the key
CreateBodies ==
    { [title |-> "a", description |-> NilString, due_date |-> NilString, priority |-> NilString, raw_text |-> NilString, user_id |-> ""],
      [title |-> "b", description |-> "d", due_date |-> DateA, priority |-> "high", raw_text |-> "x", user_id |-> "u2"],
      [title |-> "b", description |-> "d", due_date |-> BadDate, priority |-> "high", raw_text |-> NilString, user_id |-> ""],
      [title |-> NilString, description |-> "d", due_date |-> NilString, priority |-> NilString, raw_text |-> NilString, user_id |-> ""] }

\* JSON bodies of PUT /tasks/:id; NilString: the body does not name the key
UpdateBodies ==
    { [title |-> "a", description |-> NilString, due_date |-> NilString, priority |-> NilString, raw_text |-> NilString, user_id |-> ""],
      [title |-> "b", description |-> "d", due_date |-> DateA, priority |-> "high", raw_text |-> "x", user_id |-> "u2"],
      [title |-> "a", description |-> NilString, due_date |-> BadDate, priority |-> NilString, raw_text |-> NilString, user_id |-> ""] }

\* a request without body
NoBody == [title |-> NilString, description |-> NilString, due_date |-> NilString, priority |-> NilString, raw_text |-> NilString, user_id |-> ""]

\* the texts of POST /tasks/from-text (binding:"required": never empty)
Texts == {"x", "y"}

\* JSON objects the model may put into its array
CandA == [title |-> "a", description |-> "", due_date |-> NilString, priority |-> "", user_id |-> ""]

CandB == [title |-> "b", description |-> "d", due_date |-> DateA, priority |-> "high", user_id |-> "u1"]

CandObjects == {CandA, CandB}

\* every sequence of at most n elements of S
RECURSIVE SeqsUpTo(_, _)
SeqsUpTo(S, n) ==
    IF n = 0 THEN {<<>>}
    ELSE LET shorter == SeqsUpTo(S, n - 1)
         IN  shorter \cup {Append(s, e) : s \in {t \in shorter : Len(t) = n - 1}, e \in S}

CandArrays == SeqsUpTo(CandObjects, MaxCands)

\* What the provider does with one request.
\*   transport : the round trip fails (network error, cancelled context)
\*   status    : the HTTP status of the answer
\*   body      : the body of an answer whose status is not 200
\*   envelope  : the body of a 200 answer decodes into the choices envelope
\*   choices   : the number of entries of choices
\*   content   : what the text of choices[0].message.content is: a JSON array
\*               of task objects, prose, JSON cut off in the middle, a JSON
\*               object, or the JSON value null
\*   array     : that array
ContentKinds == {"array", "prose", "truncated", "object", "null"}

ProviderFailures ==
    { [transport |-> TRUE, status |-> 0, body |-> "", envelope |-> FALSE, choices |-> 0, content |-> "", array |-> <<>>],
      [transport |-> FALSE, status |-> 500, body |-> "boom", envelope |-> FALSE, choices |-> 0, content |-> "", array |-> <<>>],
      [transport |-> FALSE, status |-> 200, body |-> "", envelope |-> FALSE, choices |-> 0, content |-> "", array |-> <<>>],
      [transport |-> FALSE, status |-> 200, body |-> "", envelope |-> TRUE, choices |-> 0, content |-> "", array |-> <<>>],
      [transport |-> FALSE, status |-> 200, body |-> "", envelope |-> TRUE, choices |-> 1, content |-> "prose", array |-> <<>>] }

\* further answers without a candidate array: other statuses and bodies, other
\* contents that are not an array
ProviderVariants ==
    { [transport |-> FALSE, status |-> 500, body |-> "rate limited", envelope |-> FALSE, choices |-> 0, content |-> "", array |-> <<>>],
      [transport |-> FALSE, status |-> 429, body |-> "rate limited", envelope |-> FALSE, choices |-> 0, content |-> "", array |-> <<>>] }
    \cup { [transport |-> FALSE, status |-> 200, body |-> "", envelope |-> TRUE, choices |-> 1, content |-> c, array |-> <<>>] : c \in ContentKinds \ {"array", "prose"} }

ProviderAnswer(array) == [transport |-> FALSE, status |-> 200, body |-> "", envelope |-> TRUE, choices |-> 1, content |-> "array", array |-> array]

ProviderResponses == ProviderFailures \cup {ProviderAnswer(a) : a \in CandArrays}

\* The inputs of the specification of all six handlers: extraction is kept to
\* one text, one failure and three answers.
CrudTexts == {"x"}

CrudProviderResponses ==
    { [transport |-> FALSE, status |-> 500, body |-> "boom", envelope |-> FALSE, choices |-> 0, content |-> "", array |-> <<>>],
      ProviderAnswer(<<>>), ProviderAnswer(<<CandB>>), ProviderAnswer(<<CandB, CandB>>) }

(***************************************************************************)
(* Conversions.                                                            *)
(***************************************************************************)
\* time.Parse(time.RFC3339, s)
ParseRFC3339(s) ==
    CASE s = DateA -> [time |-> 1, ok |-> TRUE]
      [] s = DateB -> [time |-> 2, ok |-> TRUE]
      [] OTHER -> [time |-> ZeroTime, ok |-> FALSE]

\* ShouldBindJSON into a string field: a key the body does not name leaves the
\* field the empty string
StringField(v) == IF v = NilString THEN "" ELSE v

\* api.parseDueDate
parseDueDate(dateStr) ==
    LET p == ParseRFC3339(dateStr)
    IN  IF p.ok THEN [time |-> p.time, err |-> NoErr]
        ELSE [time |-> ZeroTime, err |-> "unsupported date format"]

\* json.Unmarshal of one array element into llm.Task: null leaves DueDate the
\* zero time, keys without a field are dropped
UnmarshalTask(obj) ==
    [Title |-> obj.title, Description |-> obj.description,
     DueDate |-> IF obj.due_date = NilString THEN ZeroTime ELSE ParseRFC3339(obj.due_date).time,
     Priority |-> obj.priority]

\* json.Unmarshal of the array into []llm.Task
UnmarshalTasks(array) == [i \in 1..Len(array) |-> UnmarshalTask(array[i])]

\* json.Unmarshal([]byte(content), &tasks) with tasks a nil []llm.Task: an
\* array of objects fills the slice, null leaves it nil without error, text
\* that is not JSON, JSON that ends early and a JSON object are errors
UnmarshalContent(content, array) ==
    CASE content = "array" -> [tasks |-> UnmarshalTasks(array), ok |-> TRUE]
      [] content = "null" -> [tasks |-> <<>>, ok |-> TRUE]
      [] OTHER -> [tasks |-> <<>>, ok |-> FALSE]

(***************************************************************************)
(* The task table and the repository (gorm over the tasks table).  A       *)
(* repository operation takes the table and returns the table after it.    *)
(* fault: the database fails the statement.                                *)
(***************************************************************************)
\* Mutant: the default tag of priority is not applied.
BeforeCreate_NoDefault(task) ==
    [task EXCEPT !.created_at = IF task.created_at = ZeroTime THEN Now ELSE task.created_at]

\* gorm's create callback: a zero field with a default tag takes the default,
\* autoCreateTime fills created_at; both are written back into the struct
BeforeCreate(task) ==
    [task EXCEPT !.priority = IF task.priority = "" THEN "medium" ELSE task.priority,
                 !.created_at = IF task.created_at = ZeroTime THEN Now ELSE task.created_at]

\* TaskRepository.CreateTask: db.Create(task); id is the primary key
TaskRepository_CreateTask(db, task, fault) ==
    IF fault THEN [db |-> db, task |-> task, err |-> ErrDB]
    ELSE IF \E r \in db : r.id = task.id THEN [db |-> db, task |-> task, err |-> ErrDuplicateKey]
    ELSE [db |-> db \cup {BeforeCreate(task)}, task |-> BeforeCreate(task), err |-> NoErr]

\* Mutant: the row is looked up by id alone.
TaskRepository_GetTaskByID_AnyOwner(db, id, userID, fault) ==
    LET rows == {r \in db : r.id = id}
    IN  IF fault THEN [task |-> ZeroTask, err |-> ErrDB]
        ELSE IF rows = {} THEN [task |-> ZeroTask, err |-> ErrRecordNotFound]
        ELSE [task |-> CHOOSE r \in rows : TRUE, err |-> NoErr]

\* TaskRepository.GetTaskByID: Where("id = ? AND user_id = ?").First(&task)
TaskRepository_GetTaskByID(db, id, userID, fault) ==
    LET rows == {r \in db : r.id = id /\ r.user_id = userID}
    IN  IF fault THEN [task |-> ZeroTask, err |-> ErrDB]
        ELSE IF rows = {} THEN [task |-> ZeroTask, err |-> ErrRecordNotFound]
        ELSE [task |-> CHOOSE r \in rows : TRUE, err |-> NoErr]

\* Mutant: every row of the table is returned.
TaskRepository_GetTasksByUserID_All(db, userID, fault) ==
    IF fault THEN [tasks |-> {}, err |-> ErrDB]
    ELSE [tasks |-> db, err |-> NoErr]

\* TaskRepository.GetTasksByUserID: Where("user_id = ?").Find(&tasks)
TaskRepository_GetTasksByUserID(db, userID, fault) ==
    IF fault THEN [tasks |-> {}, err |-> ErrDB]
    ELSE [tasks |-> {r \in db : r.user_id = userID}, err |-> NoErr]

\* TaskRepository.UpdateTask: db.Save(task) writes every field of the row with
\* the task's primary key, and inserts the row when there is none
TaskRepository_UpdateTask(db, task, fault) ==
    IF fault THEN [db |-> db, err |-> ErrDB]
    ELSE [db |-> {r \in db : r.id # task.id} \cup {task}, err |-> NoErr]

\* Mutant: success is reported and the row is left in the table.
TaskRepository_DeleteTask_KeepsRow(db, id, userID, fault) ==
    LET rows == {r \in db : r.id = id /\ r.user_id = userID}
        RowsAffected == IF fault THEN 0 ELSE Cardinality(rows)
    IN  IF RowsAffected = 0 THEN [db |-> db, err |-> ErrRecordNotFound]
        ELSE [db |-> db, err |-> NoErr]

\* Mutant: the row is deleted by id alone.
TaskRepository_DeleteTask_AnyOwner(db, id, userID, fault) ==
    LET rows == {r \in db : r.id = id}
        RowsAffected == IF fault THEN 0 ELSE Cardinality(rows)
    IN  IF RowsAffected = 0 THEN [db |-> db, err |-> ErrRecordNotFound]
        ELSE [db |-> db \ rows, err |-> NoErr]

\* TaskRepository.DeleteTask: no row affected is reported as ErrRecordNotFound
\* before result.Error is looked at
TaskRepository_DeleteTask(db, id, userID, fault) ==
    LET rows == {r \in db : r.id = id /\ r.user_id = userID}
        RowsAffected == IF fault THEN 0 ELSE Cardinality(rows)
    IN  IF RowsAffected = 0 THEN [db |-> db, err |-> ErrRecordNotFound]
        ELSE [db |-> db \ rows, err |-> NoErr]

(***************************************************************************)
(* The extraction client (OpenAIExtractor).                                *)
(***************************************************************************)
\* OpenAIExtractor.ExtractTasks: one request; tasks is nil (the empty
\* sequence) on every error path
ExtractTasks(resp) ==
    IF resp.transport THEN [tasks |-> <<>>, err |-> ErrTransport]
    ELSE IF resp.status # 200 THEN [tasks |-> <<>>, err |-> ErrStatus(resp.status, resp.body)]
    ELSE IF ~resp.envelope THEN [tasks |-> <<>>, err |-> ErrDecode]
    ELSE IF resp.choices = 0 THEN [tasks |-> <<>>, err |-> NoErr]
    ELSE IF ~UnmarshalContent(resp.content, resp.array).ok THEN [tasks |-> <<>>, err |-> ErrUnmarshal]
    ELSE [tasks |-> UnmarshalContent(resp.content, resp.array).tasks, err |-> NoErr]

(***************************************************************************)
(* The task service.                                                       *)
(***************************************************************************)
\* Mutant: every call returns the same identifier.
NewUUID_Fixed(n) == 1

\* uuid.New(): the n-th identifier issued
NewUUID(n) == n

\* TaskService.CreateTask
TaskService_CreateTask(db, task, fault) == TaskRepository_CreateTask(db, task, fault)

\* TaskService.GetTaskByID
TaskService_GetTaskByID(db, id, userID, fault) ==
    LET r == TaskRepository_GetTaskByID(db, id, userID, fault)
    IN  IF r.err = ErrRecordNotFound THEN [task |-> ZeroTask, err |-> ErrNotFoundOrUnauthorized]
        ELSE IF r.err # NoErr THEN [task |-> ZeroTask, err |-> r.err]
        ELSE r

\* TaskService.GetTasksByUserID
TaskService_GetTasksByUserID(db, userID, fault) == TaskRepository_GetTasksByUserID(db, userID, fault)

\* Mutant: the request's task is saved as it is once the row is known to exist.
TaskService_UpdateTask_SaveRequest(db, task, userID, faultGet, faultSave) ==
    IF faultGet THEN [db |-> db, err |-> ErrDB]
    ELSE IF ~\E r \in db : r.id = task.id THEN [db |-> db, err |-> ErrNotFoundOrUnauthorized]
    ELSE TaskRepository_UpdateTask(db, task, faultSave)

\* TaskService.UpdateTask: the row is read with the requester's id, five
\* fields are copied from the request's task, the row is saved
TaskService_UpdateTask(db, task, userID, faultGet, faultSave) ==
    LET g == TaskRepository_GetTaskByID(db, task.id, userID, faultGet)
        existingTask == [g.task EXCEPT !.title = task.title, !.description = task.description, !.due_date = task.due_date, !.priority = task.priority, !.raw_text = task.raw_text]
    IN  IF g.err = ErrRecordNotFound THEN [db |-> db, err |-> ErrNotFoundOrUnauthorized]
        ELSE IF g.err # NoErr THEN [db |-> db, err |-> g.err]
        ELSE TaskRepository_UpdateTask(db, existingTask, faultSave)

\* TaskService.DeleteTask
TaskService_DeleteTask(db, id, userID, fault) ==
    LET r == TaskRepository_DeleteTask(db, id, userID, fault)
    IN  IF r.err = ErrRecordNotFound THEN [db |-> db, err |-> ErrNotFoundOrUnauthorized]
        ELSE r

\* Mutant: the DueDate pointer is set for every candidate, the zero time included.
ToTask_ZeroDueDate(llmTask, userID, text, id) ==
    [id |-> id, user_id |-> userID, title |-> llmTask.Title, description |-> llmTask.Description,
     due_date |-> llmTask.DueDate,
     priority |-> llmTask.Priority, raw_text |-> text,
     completed |-> FALSE, created_at |-> ZeroTime]

\* Mutant: raw_text is taken from the candidate's description.
ToTask_RawFromDescription(llmTask, userID, text, id) ==
    [id |-> id, user_id |-> userID, title |-> llmTask.Title, description |-> llmTask.Description,
     due_date |-> IF llmTask.DueDate = ZeroTime THEN NilTime ELSE llmTask.DueDate,
     priority |-> llmTask.Priority, raw_text |-> llmTask.Description,
     completed |-> FALSE, created_at |-> ZeroTime]

\* The translation of one candidate in ExtractAndCreateTasks (the struct
\* literal): a fresh id, the caller's user id, the whole input text.
\* due_date is what the DueDate pointer shows while the candidate is the
\* current one: nil for the zero time, else the candidate's time.
ToTask(llmTask, userID, text, id) ==
    [id |-> id, user_id |-> userID, title |-> llmTask.Title, description |-> llmTask.Description,
     due_date |-> IF llmTask.DueDate = ZeroTime THEN NilTime ELSE llmTask.DueDate,
     priority |-> llmTask.Priority, raw_text |-> text,
     completed |-> FALSE, created_at |-> ZeroTime]

\* What a returned task's DueDate pointer shows once the loop has ended.  The
\* pointer is &llmTask.DueDate, the address of the loop variable.  With one
\* variable per iteration (go >= 1.22 in go.mod) it still holds candidate i;
\* with one variable for the whole loop it holds the last candidate.
DueDateAfterLoop(task, cands, i, perIteration) ==
    IF task.due_date = NilTime THEN task
    ELSE [task EXCEPT !.due_date = IF perIteration THEN cands[i].DueDate ELSE cands[Len(cands)].DueDate]

RECURSIVE CreateLoop(_, _, _, _, _, _, _, _)
\* Mutant: the loop ends at the first CreateTask that fails (break for continue).
CreateLoop_BreakOnError(db, cands, i, text, userID, next, faults, created) ==
    IF i > Len(cands) THEN [db |-> db, created |-> created, next |-> next]
    ELSE LET r == TaskRepository_CreateTask(db, ToTask(cands[i], userID, text, NewUUID(next)), faults[i])
         IN  IF r.err # NoErr
             THEN [db |-> r.db, created |-> created, next |-> next + 1]
             ELSE CreateLoop(r.db, cands, i + 1, text, userID, next + 1, faults, Append(created, [task |-> r.task, cand |-> i]))

\* The loop of ExtractAndCreateTasks from candidate i on: a failed CreateTask
\* is skipped (continue).  created holds, for each task appended, the task and
\* the index of its candidate.
CreateLoop(db, cands, i, text, userID, next, faults, created) ==
    IF i > Len(cands) THEN [db |-> db, created |-> created, next |-> next]
    ELSE LET r == TaskRepository_CreateTask(db, ToTask(cands[i], userID, text, NewUUID(next)), faults[i])
         IN  IF r.err # NoErr
             THEN CreateLoop(r.db, cands, i + 1, text, userID, next + 1, faults, created)
             ELSE CreateLoop(r.db, cands, i + 1, text, userID, next + 1, faults, Append(created, [task |-> r.task, cand |-> i]))

\* Mutant: an extraction without candidates is reported as an error.
ExtractAndCreateTasks_EmptyIsError(db, ext, text, userID, next, faults, perIteration) ==
    IF ext.err # NoErr \/ ext.tasks = <<>>
    THEN [db |-> db, tasks |-> <<>>, err |-> ErrExtractPrefix \o ext.err, next |-> next]
    ELSE LET l == CreateLoop(db, ext.tasks, 1, text, userID, next, faults, <<>>)
         IN  [db |-> l.db,
              tasks |-> [k \in 1..Len(l.created) |-> DueDateAfterLoop(l.created[k].task, ext.tasks, l.created[k].cand, perIteration)],
              err |-> NoErr, next |-> l.next]

\* Mutant: the extractor's error is dropped and the loop runs on what it returned.
ExtractAndCreateTasks_ErrorDropped(db, ext, text, userID, next, faults, perIteration) ==
    LET l == CreateLoop(db, ext.tasks, 1, text, userID, next, faults, <<>>)
    IN  [db |-> l.db,
         tasks |-> [k \in 1..Len(l.created) |-> DueDateAfterLoop(l.created[k].task, ext.tasks, l.created[k].cand, perIteration)],
         err |-> NoErr, next |-> l.next]

\* TaskService.ExtractAndCreateTasks.  ext is what the extractor returned,
\* next the number of the next identifier, faults[i] whether the database
\* fails the i-th CreateTask.
TaskService_ExtractAndCreateTasks(db, ext, text, userID, next, faults, perIteration) ==
    IF ext.err # NoErr
    THEN [db |-> db, tasks |-> <<>>, err |-> ErrExtractPrefix \o ext.err, next |-> next]
    ELSE LET l == CreateLoop(db, ext.tasks, 1, text, userID, next, faults, <<>>)
         IN  [db |-> l.db,
              tasks |-> [k \in 1..Len(l.created) |-> DueDateAfterLoop(l.created[k].task, ext.tasks, l.created[k].cand, perIteration)],
              err |-> NoErr, next |-> l.next]

(***************************************************************************)
(* The users table, the user repository and the auth service.              *)
(***************************************************************************)
\* the emails and passwords of POST /auth/register and POST /auth/login
Emails == {"e1", "e2"}

Passwords == {"p", "q"}

\* bcrypt.GenerateFromPassword: the hash of a password (the salt is left out)
GenerateFromPassword(password) == "bcrypt:" \o password

\* bcrypt.CompareHashAndPassword: nil exactly when the hash is the password's
CompareHashAndPassword(hash, password) == hash = GenerateFromPassword(password)

\* UserRepository.GetUserByEmail: Where("email = ?").First(&user)
UserRepository_GetUserByEmail(db, email, fault) ==
    LET rows == {r \in db : r.email = email}
    IN  IF fault THEN [user |-> ZeroUser, err |-> ErrDB]
        ELSE IF rows = {} THEN [user |-> ZeroUser, err |-> ErrRecordNotFound]
        ELSE [user |-> CHOOSE r \in rows : TRUE, err |-> NoErr]

\* Mutant: the users table has no unique constraint on email.
UserRepository_CreateUser_NoUnique(db, user, fault) ==
    IF fault THEN [db |-> db, err |-> ErrDB]
    ELSE [db |-> db \cup {user}, err |-> NoErr]

\* UserRepository.CreateUser: db.Create(user) into users(id primary key,
\* email unique)
UserRepository_CreateUser(db, user, fault) ==
    IF fault THEN [db |-> db, err |-> ErrDB]
    ELSE IF \E r \in db : r.id = user.id \/ r.email = user.email THEN [db |-> db, err |-> ErrDuplicateKey]
    ELSE [db |-> db \cup {user}, err |-> NoErr]

\* Mutant: the check never finds the email taken.
RegisterUser_exists_Never(db, email, fault) == FALSE

\* AuthService.RegisterUser, the check: err == nil of GetUserByEmail
RegisterUser_exists(db, email, fault) == UserRepository_GetUserByEmail(db, email, fault).err = NoErr

\* AuthService.RegisterUser, the user it builds after the check
RegisterUser_user(email, password, id) ==
    [id |-> id, email |-> email, password_hash |-> GenerateFromPassword(password)]

\* jwt token.SignedString with the claim user_id
SignedString(userID) == "jwt:" \o ToString(userID)

\* Mutant: an email without user is answered with its own error.
AuthService_LoginUser_TellsMissing(db, email, password, fault) ==
    LET g == UserRepository_GetUserByEmail(db, email, fault)
    IN  IF g.err # NoErr THEN [token |-> "", err |-> "user not found"]
        ELSE IF ~CompareHashAndPassword(g.user.password_hash, password) THEN [token |-> "", err |-> ErrInvalidCredentials]
        ELSE [token |-> SignedString(g.user.id), err |-> NoErr]

\* AuthService.LoginUser
AuthService_LoginUser(db, email, password, fault) ==
    LET g == UserRepository_GetUserByEmail(db, email, fault)
    IN  IF g.err # NoErr THEN [token |-> "", err |-> ErrInvalidCredentials]
        ELSE IF ~CompareHashAndPassword(g.user.password_hash, password) THEN [token |-> "", err |-> ErrInvalidCredentials]
        ELSE [token |-> SignedString(g.user.id), err |-> NoErr]

(***************************************************************************)
(* State.                                                                  *)
(***************************************************************************)
VARIABLES tasks, nextId, call, resp, deleted, users, reg, client, updating
\* tasks   : the rows of the tasks table
\* nextId  : the number of the next identifier uuid.New() returns
\* call    : the request handled last
\* resp    : the response written for it
\* deleted : history, the (id, user) of every DELETE answered 204
\* users   : the rows of the users table
\* reg     : for each worker, the auth service call it runs or ran last
\* client  : the POST /tasks/from-text call whose model request is in flight
\* updating: the PUT /tasks/:id call between its read and its save

vars == <<tasks, nextId, call, resp, deleted, users, reg, client, updating>>

\* the goroutines that serve auth requests at the same time
Workers == {"w1", "w2"}

\* what a worker holds: pc is "create" between the check of RegisterUser and
\* its CreateUser, else "idle"; fault is whether the lookup failed
NoAuthCall == [pc |-> "idle", op |-> "none", email |-> "", password |-> "", fault |-> FALSE, err |-> NoErr, user |-> ZeroUser, token |-> ""]

\* what the extraction call holds: pc is "waiting" from httpClient.Do until the
\* provider's response or the cancellation, "responded" once the response is
\* there, else "idle"; requests counts the requests this call sent to the
\* provider, extractions its calls of the extractor; cancelled is whether the
\* context of the inbound request is done
NoClient == [pc |-> "idle", user |-> "", text |-> "", requests |-> 0, extractions |-> 0, cancelled |-> FALSE, provider |-> [transport |-> FALSE, status |-> 0, body |-> "", envelope |-> FALSE, choices |-> 0, content |-> "", array |-> <<>>]]

\* what the update call holds: pc is "save" between GetTaskByID and Save, and
\* task is existingTask with the request's fields copied in
NoUpdate == [pc |-> "idle", user |-> "", id |-> NilUUID, req |-> NoBody, task |-> ZeroTask]

\* the variables the split calls use
inFlight == <<client, updating>>

\* the variables the task handlers leave alone
otherVars == <<users, reg, client, updating>>

NoProvider == [transport |-> FALSE, status |-> 0, body |-> "", envelope |-> FALSE, choices |-> 0, content |-> "", array |-> <<>>]

\* op, the authenticated user, the :id of the path, the body (body_user is
\* its user_id key), the text, what the provider did, what the database did
Call(op, user, id, req, text, provider, faults) ==
    [op |-> op, user |-> user, id |-> id, req |-> req, body_user |-> req.user_id, text |-> text, provider |-> provider, faults |-> faults]

\* c.JSON(status, ...): err is the "error" member, task a task object, tasks
\* an array in order, list an array whose order the store does not fix
Response(status, err, task, taskSeq, taskSet) ==
    [status |-> status, err |-> err, task |-> task, tasks |-> taskSeq, list |-> taskSet]

Init ==
    /\ tasks = {}
    /\ nextId = 1
    /\ call = Call("none", "", NilUUID, NoBody, "", NoProvider, <<>>)
    /\ resp = Response(0, NoErr, ZeroTask, <<>>, {})
    /\ deleted = {}
    /\ users = {}
    /\ reg = [w \in Workers |-> NoAuthCall]
    /\ client = NoClient
    /\ updating = NoUpdate

(***************************************************************************)
(* The handlers of package api.  user is the identity the auth middleware  *)
(* put into the context.                                                   *)
(***************************************************************************)
\* Mutant: a user_id in the body becomes the owner.
CreateTask_task_BodyOwner(user, req, id) ==
    [ZeroTask EXCEPT !.id = id, !.user_id = IF req.user_id # "" THEN req.user_id ELSE user, !.title = StringField(req.title), !.description = StringField(req.description), !.priority = StringField(req.priority), !.raw_text = StringField(req.raw_text)]

\* the *models.Task api.CreateTask builds before the due date is parsed
CreateTask_task(user, req, id) ==
    [ZeroTask EXCEPT !.id = id, !.user_id = user, !.title = StringField(req.title), !.description = StringField(req.description), !.priority = StringField(req.priority), !.raw_text = StringField(req.raw_text)]

\* the *models.Task api.UpdateTask builds before the due date is parsed
UpdateTask_task(user, req, id) ==
    [ZeroTask EXCEPT !.id = id, !.user_id = user, !.title = StringField(req.title), !.description = StringField(req.description), !.priority = StringField(req.priority), !.raw_text = StringField(req.raw_text)]

\* if req.DueDate != nil && *req.DueDate != "" { ... task.DueDate = &parsedTime }
WithDueDate(task, req) ==
    IF req.due_date # NilString /\ req.due_date # "" THEN [task EXCEPT !.due_date = parseDueDate(req.due_date).time] ELSE task

DueDateInvalid(req) ==
    req.due_date # NilString /\ req.due_date # "" /\ parseDueDate(req.due_date).err # NoErr

\* What a handler makes of the response of a service call that can fail with
\* ErrNotFoundOrUnauthorized: 404 for that message, 500 for any other error
ErrorResponse(err) ==
    IF err = ErrNotFoundOrUnauthorized THEN Response(404, err, ZeroTask, <<>>, {})
    ELSE Response(500, err, ZeroTask, <<>>, {})

\* api.CreateTask on table db, next the number of the next identifier
api_CreateTask(db, next, user, req, fault) ==
    IF StringField(req.title) = "" THEN [db |-> db, next |-> next, resp |-> Response(400, "bind", ZeroTask, <<>>, {})]
    ELSE IF DueDateInvalid(req) THEN [db |-> db, next |-> next + 1, resp |-> Response(400, ErrInvalidDueDate, ZeroTask, <<>>, {})]
    ELSE LET r == TaskService_CreateTask(db, WithDueDate(CreateTask_task(user, req, NewUUID(next)), req), fault)
         IN  [db |-> r.db, next |-> next + 1,
              resp |-> IF r.err # NoErr THEN Response(500, r.err, ZeroTask, <<>>, {}) ELSE Response(201, NoErr, r.task, <<>>, {})]

\* api.GetTasks
api_GetTasks(db, user, fault) ==
    LET r == TaskService_GetTasksByUserID(db, user, fault)
    IN  [db |-> db, resp |-> IF r.err # NoErr THEN Response(500, r.err, ZeroTask, <<>>, {}) ELSE Response(200, NoErr, ZeroTask, <<>>, r.tasks)]

\* api.GetTaskByID
api_GetTaskByID(db, user, id, fault) ==
    LET r == TaskService_GetTaskByID(db, id, user, fault)
    IN  [db |-> db, resp |-> IF r.err # NoErr THEN ErrorResponse(r.err) ELSE Response(200, NoErr, r.task, <<>>, {})]

\* api.UpdateTask: the body of the 200 response is the task built from the request
api_UpdateTask(db, user, id, req, faults) ==
    IF DueDateInvalid(req) THEN [db |-> db, resp |-> Response(400, ErrInvalidDueDate, ZeroTask, <<>>, {})]
    ELSE LET task == WithDueDate(UpdateTask_task(user, req, id), req)
             r == TaskService_UpdateTask(db, task, user, faults[1], faults[2])
         IN  [db |-> r.db, resp |-> IF r.err # NoErr THEN ErrorResponse(r.err) ELSE Response(200, NoErr, task, <<>>, {})]

\* api.DeleteTask
api_DeleteTask(db, user, id, fault) ==
    LET r == TaskService_DeleteTask(db, id, user, fault)
    IN  [db |-> r.db, resp |-> IF r.err # NoErr THEN ErrorResponse(r.err) ELSE Response(204, NoErr, ZeroTask, <<>>, {})]

\* api.ExtractTasksFromText.  perIteration: the build gives the range loop one
\* variable per iteration; go.mod decides it and the sources do not show it.
api_ExtractTasksFromText(db, next, user, text, provider, faults, perIteration) ==
    LET r == TaskService_ExtractAndCreateTasks(db, ExtractTasks(provider), text, user, next, faults, perIteration)
    IN  [db |-> r.db, next |-> r.next,
         resp |-> IF r.err # NoErr THEN Response(500, r.err, ZeroTask, <<>>, {}) ELSE Response(201, NoErr, ZeroTask, r.tasks, {})]

\* POST /tasks
CreateTask(user, req, fault) ==
    LET h == api_CreateTask(tasks, nextId, user, req, fault)
    IN  /\ nextId <= MaxIds
        /\ call' = Call("create", user, NilUUID, req, "", NoProvider, <<fault>>)
        /\ tasks' = h.db
        /\ nextId' = h.next
        /\ resp' = h.resp
        /\ UNCHANGED <<deleted, otherVars>>

\* GET /tasks
GetTasks(user, fault) ==
    LET h == api_GetTasks(tasks, user, fault)
    IN  /\ call' = Call("list", user, NilUUID, NoBody, "", NoProvider, <<fault>>)
        /\ resp' = h.resp
        /\ UNCHANGED <<tasks, nextId>>
        /\ UNCHANGED <<deleted, otherVars>>

\* GET /tasks/:id
GetTaskByID(user, id, fault) ==
    LET h == api_GetTaskByID(tasks, user, id, fault)
    IN  /\ call' = Call("get", user, id, NoBody, "", NoProvider, <<fault>>)
        /\ resp' = h.resp
        /\ UNCHANGED <<tasks, nextId>>
        /\ UNCHANGED <<deleted, otherVars>>

\* PUT /tasks/:id
UpdateTask(user, id, req, faults) ==
    LET h == api_UpdateTask(tasks, user, id, req, faults)
    IN  /\ call' = Call("update", user, id, req, "", NoProvider, faults)
        /\ tasks' = h.db
        /\ resp' = h.resp
        /\ UNCHANGED nextId
        /\ UNCHANGED <<deleted, otherVars>>

\* DELETE /tasks/:id
DeleteTask(user, id, fault) ==
    LET h == api_DeleteTask(tasks, user, id, fault)
    IN  /\ call' = Call("delete", user, id, NoBody, "", NoProvider, <<fault>>)
        /\ tasks' = h.db
        /\ resp' = h.resp
        /\ UNCHANGED nextId
        /\ UNCHANGED <<deleted, otherVars>>

\* DELETE /tasks/:id again, keeping the history of the deletions answered 204
DeleteTask_Recorded(user, id, fault) ==
    LET h == api_DeleteTask(tasks, user, id, fault)
    IN  /\ call' = Call("delete", user, id, NoBody, "", NoProvider, <<fault>>)
        /\ tasks' = h.db
        /\ resp' = h.resp
        /\ UNCHANGED nextId
        /\ deleted' = IF h.resp.status = 204 THEN deleted \cup {[id |-> id, user |-> user]} ELSE deleted
        /\ UNCHANGED otherVars

\* POST /tasks/from-text
ExtractTasksFromText(user, text, provider, faults, perIteration) ==
    LET h == api_ExtractTasksFromText(tasks, nextId, user, text, provider, faults, perIteration)
    IN  /\ call' = Call("extract", user, NilUUID, NoBody, text, provider, faults)
        /\ tasks' = h.db
        /\ nextId' = h.next
        /\ resp' = h.resp
        /\ UNCHANGED <<deleted, otherVars>>

(***************************************************************************)
(* What the environment chooses for one request.                           *)
(***************************************************************************)
\* which of the statements one request sends to the database fail
FaultSeqs == SeqsUpTo(BOOLEAN, MaxCands)

UpdateFaults == {<<FALSE, FALSE>>, <<TRUE, FALSE>>, <<FALSE, TRUE>>}

\* the faults of PUT /tasks/:id: a body that is refused sends no statement
UpdateFaultsOf(req) == IF DueDateInvalid(req) THEN {<<FALSE, FALSE>>} ELSE UpdateFaults

\* the responses that leave the handler enough identifiers (uuid.New() never
\* runs out; the model stops at MaxIds)
Within(responses, next) == {p \in responses : next + Len(p.array) <= MaxIds + 1}

\* one entry for each candidate the extractor makes of the provider's response
ExtractFaults(provider) == {f \in FaultSeqs : Len(f) = Len(ExtractTasks(provider).tasks)}

(***************************************************************************)
(* Spec: all six handlers.                                                 *)
(***************************************************************************)
Next ==
    \/ \E user \in Users, req \in CreateBodies, fault \in BOOLEAN : CreateTask(user, req, fault)
    \/ \E user \in Users, fault \in BOOLEAN : GetTasks(user, fault)
    \/ \E user \in Users, id \in TaskIds, fault \in BOOLEAN : GetTaskByID(user, id, fault)
    \/ \E user \in Users, id \in TaskIds, req \in UpdateBodies : \E faults \in UpdateFaultsOf(req) : UpdateTask(user, id, req, faults)
    \/ \E user \in Users, id \in TaskIds, fault \in BOOLEAN : DeleteTask(user, id, fault)
    \/ \E user \in Users, text \in CrudTexts, provider \in Within(CrudProviderResponses, nextId) : \E faults \in ExtractFaults(provider), perIteration \in BOOLEAN : ExtractTasksFromText(user, text, provider, faults, perIteration)

Spec == Init /\ [][Next]_vars

(***************************************************************************)
(* SpecExtract: POST /tasks/from-text with every provider response, every  *)
(* pattern of database failures and both texts, next to manual creation.   *)
(***************************************************************************)
NextExtract ==
    \/ \E user \in Users, text \in Texts, provider \in Within(ProviderResponses, nextId) : \E faults \in ExtractFaults(provider), perIteration \in BOOLEAN : ExtractTasksFromText(user, text, provider, faults, perIteration)
    \/ \E user \in Users, req \in CreateBodies, fault \in BOOLEAN : CreateTask(user, req, fault)

SpecExtract == Init /\ [][NextExtract]_vars

(***************************************************************************)
(* SpecProvider: POST /tasks/from-text with every answer of the provider,  *)
(* the variants included, and a database that does not fail.               *)
(***************************************************************************)
NextProvider ==
    \E user \in Users, text \in CrudTexts, provider \in Within(ProviderResponses \cup ProviderVariants, nextId) :
        \E faults \in {f \in ExtractFaults(provider) : \A i \in 1..Len(f) : ~f[i]}, perIteration \in BOOLEAN :
            ExtractTasksFromText(user, text, provider, faults, perIteration)

SpecProvider == Init /\ [][NextProvider]_vars

(***************************************************************************)
(* SpecAuth: POST /auth/register and POST /auth/login served by two        *)
(* workers.  RegisterUser is two steps, the check and the creation, and    *)
(* the other worker may run between them.                                  *)
(***************************************************************************)
\* RegisterUser up to the check: "user already exists", or on to the creation
RegisterUser_Check(w, email, password, fault) ==
    /\ reg[w].pc = "idle"
    /\ nextId + Cardinality({v \in Workers : reg[v].pc = "create"}) <= MaxIds
    /\ reg' = [reg EXCEPT ![w] =
          IF RegisterUser_exists(users, email, fault)
          THEN [pc |-> "idle", op |-> "register", email |-> email, password |-> password, fault |-> fault, err |-> ErrUserExists, user |-> ZeroUser, token |-> ""]
          ELSE [pc |-> "create", op |-> "register", email |-> email, password |-> password, fault |-> fault, err |-> NoErr, user |-> ZeroUser, token |-> ""]]
    /\ UNCHANGED <<users, nextId, tasks, call, resp, deleted, inFlight>>

\* RegisterUser from the hash on: uuid.New(), CreateUser, return
RegisterUser_Create(w, fault) ==
    LET user == RegisterUser_user(reg[w].email, reg[w].password, NewUUID(nextId))
        r == UserRepository_CreateUser(users, user, fault)
    IN  /\ reg[w].pc = "create"
        /\ users' = r.db
        /\ nextId' = nextId + 1
        /\ reg' = [reg EXCEPT ![w].pc = "idle", ![w].err = r.err, ![w].user = IF r.err = NoErr THEN user ELSE ZeroUser]
        /\ UNCHANGED <<tasks, call, resp, deleted, inFlight>>

\* LoginUser
LoginUser(w, email, password, fault) ==
    LET r == AuthService_LoginUser(users, email, password, fault)
    IN  /\ reg[w].pc = "idle"
        /\ reg' = [reg EXCEPT ![w] = [pc |-> "idle", op |-> "login", email |-> email, password |-> password, fault |-> fault, err |-> r.err, user |-> ZeroUser, token |-> r.token]]
        /\ UNCHANGED <<users, nextId, tasks, call, resp, deleted, inFlight>>

NextAuth ==
    \/ \E w \in Workers, email \in Emails, password \in Passwords, fault \in BOOLEAN : RegisterUser_Check(w, email, password, fault)
    \/ \E w \in Workers, fault \in BOOLEAN : RegisterUser_Create(w, fault)
    \/ \E w \in Workers, email \in Emails, password \in Passwords, fault \in BOOLEAN : LoginUser(w, email, password, fault)

SpecAuth == Init /\ [][NextAuth]_vars

(***************************************************************************)
(* SpecHandlers: the handlers of package handlers (TaskHandler), which     *)
(* main.go does not wire, over the same task service, next to POST /tasks. *)
(***************************************************************************)
\* A user's id and a task's id are both uuid.UUID, and no user id is a task
\* id.  The model writes user ids as strings and task ids as numbers: a user
\* id used as a task id is a number no task has, a task id used as a user id
\* is a string no user has.
UserIDAsTaskID(userID) == IF userID = "u1" THEN -1 ELSE -2

TaskIDAsUserID(taskID) == "task:" \o ToString(taskID)

\* TaskHandler.GetTask: h.taskService.GetTaskByID(userID, taskID), where the
\* service's parameters are (id, userID); every error is answered 404
TaskHandler_GetTask(db, user, id, fault) ==
    LET r == TaskService_GetTaskByID(db, UserIDAsTaskID(user), TaskIDAsUserID(id), fault)
    IN  [db |-> db, resp |-> IF r.err # NoErr THEN Response(404, r.err, ZeroTask, <<>>, {}) ELSE Response(200, NoErr, r.task, <<>>, {})]

\* TaskHandler.DeleteTask: h.taskService.DeleteTask(userID, taskID), where the
\* service's parameters are (id, userID); every error is answered 500
TaskHandler_DeleteTask(db, user, id, fault) ==
    LET r == TaskService_DeleteTask(db, UserIDAsTaskID(user), TaskIDAsUserID(id), fault)
    IN  [db |-> r.db, resp |-> IF r.err # NoErr THEN Response(500, r.err, ZeroTask, <<>>, {}) ELSE Response(204, NoErr, ZeroTask, <<>>, {})]

\* GET /tasks/:id served by TaskHandler
HandlerGetTask(user, id, fault) ==
    LET h == TaskHandler_GetTask(tasks, user, id, fault)
    IN  /\ call' = Call("handler_get", user, id, NoBody, "", NoProvider, <<fault>>)
        /\ resp' = h.resp
        /\ UNCHANGED <<tasks, nextId, deleted, otherVars>>

\* DELETE /tasks/:id served by TaskHandler
HandlerDeleteTask(user, id, fault) ==
    LET h == TaskHandler_DeleteTask(tasks, user, id, fault)
    IN  /\ call' = Call("handler_delete", user, id, NoBody, "", NoProvider, <<fault>>)
        /\ tasks' = h.db
        /\ resp' = h.resp
        /\ deleted' = IF h.resp.status = 204 THEN deleted \cup {[id |-> id, user |-> user]} ELSE deleted
        /\ UNCHANGED <<nextId, otherVars>>

NextHandlers ==
    \/ \E user \in Users, req \in CreateBodies, fault \in BOOLEAN : CreateTask(user, req, fault)
    \/ \E user \in Users, id \in TaskIds, fault \in BOOLEAN : HandlerGetTask(user, id, fault)
    \/ \E user \in Users, id \in TaskIds, fault \in BOOLEAN : HandlerDeleteTask(user, id, fault)

SpecHandlers == Init /\ [][NextHandlers]_vars

(***************************************************************************)
(* SpecClient: POST /tasks/from-text in the steps of its model call.  The  *)
(* handler passes c.Request.Context() to the service, the extractor builds *)
(* the request with it and hands it to httpClient.Do, which returns when   *)
(* the provider has responded or the context is done.  The client is       *)
(* &http.Client{}: it has no Timeout, and nothing else ends the wait.      *)
(***************************************************************************)
\* the providers of this specification: those of the CRUD specification and
\* one that cannot be reached
ClientProviderResponses ==
    CrudProviderResponses \cup {[transport |-> TRUE, status |-> 0, body |-> "", envelope |-> FALSE, choices |-> 0, content |-> "", array |-> <<>>]}

Do_result_IgnoresContext(cancelled, provider) == provider

\* what httpClient.Do returns for a request built with NewRequestWithContext:
\* the context's error once the context is done, else the provider's response
Do_result(cancelled, provider) ==
    IF cancelled THEN [transport |-> TRUE, status |-> 0, body |-> "", envelope |-> FALSE, choices |-> 0, content |-> "", array |-> <<>>]
    ELSE provider

ShouldRetry_OnError(err, requests) == err # NoErr /\ requests < 2

\* whether ExtractTasks sends the request again after err: it returns the
\* error of Do, and the error of a status other than 200, with no loop
ShouldRetry(err, requests) == FALSE

\* the handler binds the body and calls ExtractAndCreateTasks, that calls
\* extractor.ExtractTasks, that sends the request
ExtractCall(user, text) ==
    /\ client.pc = "idle"
    /\ client' = [NoClient EXCEPT !.pc = "waiting", !.user = user, !.text = text, !.requests = 1, !.extractions = 1]
    /\ UNCHANGED <<tasks, nextId, call, resp, deleted, users, reg, updating>>

\* the provider responds, or the transport fails, before the context is done
ProviderResponds(provider) ==
    /\ client.pc = "waiting"
    /\ ~client.cancelled
    /\ client' = [client EXCEPT !.pc = "responded", !.provider = provider]
    /\ UNCHANGED <<tasks, nextId, call, resp, deleted, users, reg, updating>>

\* the caller of the inbound request goes away: its context is done
Cancel ==
    /\ client.pc = "waiting"
    /\ ~client.cancelled
    /\ client' = [client EXCEPT !.cancelled = TRUE]
    /\ UNCHANGED <<tasks, nextId, call, resp, deleted, users, reg, updating>>

\* Do returns; ExtractTasks, ExtractAndCreateTasks and the handler run to
\* their ends
ExtractReturn(faults, perIteration) ==
    LET provider == Do_result(client.cancelled, client.provider)
        h == api_ExtractTasksFromText(tasks, nextId, client.user, client.text, provider, faults, perIteration)
    IN  /\ client.pc = "responded" \/ (client.pc = "waiting" /\ client.cancelled)
        /\ IF ShouldRetry(ExtractTasks(provider).err, client.requests)
           THEN /\ client' = [client EXCEPT !.pc = "waiting", !.requests = @ + 1, !.provider = NoClient.provider]
                /\ UNCHANGED <<tasks, nextId, call, resp>>
           ELSE /\ client' = [client EXCEPT !.pc = "idle"]
                /\ call' = Call("extract", client.user, NilUUID, NoBody, client.text, provider, faults)
                /\ tasks' = h.db
                /\ nextId' = h.next
                /\ resp' = h.resp
        /\ UNCHANGED <<deleted, users, reg, updating>>

\* the steps the program takes by itself
ExtractReturns ==
    \E perIteration \in BOOLEAN : \E faults \in ExtractFaults(Do_result(client.cancelled, client.provider)) : ExtractReturn(faults, perIteration)

NextClient ==
    \/ \E user \in Users, text \in CrudTexts : ExtractCall(user, text)
    \/ \E provider \in Within(ClientProviderResponses, nextId) : ProviderResponds(provider)
    \/ Cancel
    \/ ExtractReturns

SpecClient == Init /\ [][NextClient]_vars

\* the handler's goroutine is scheduled: a return that stays possible happens.
\* Nothing makes the provider respond or the caller cancel.
FairSpecClient == Init /\ [][NextClient]_vars /\ WF_vars(ExtractReturns)

(***************************************************************************)
(* SpecRace: PUT /tasks/:id in the two steps of TaskService.UpdateTask,    *)
(* the read of the row and its Save, with the other handlers free to run   *)
(* between them.  No transaction and no lock joins the two statements.     *)
(***************************************************************************)
\* existingTask after the copy of the request's fields
UpdateTask_existingTask(row, task) ==
    [row EXCEPT !.title = task.title, !.description = task.description, !.due_date = task.due_date, !.priority = task.priority, !.raw_text = task.raw_text]

\* the handler up to the service's GetTaskByID: an invalid due date and a
\* missing row are answered here, else the call goes on to the Save
UpdateTask_Read(user, id, req) ==
    LET task == WithDueDate(UpdateTask_task(user, req, id), req)
        g == TaskRepository_GetTaskByID(tasks, id, user, FALSE)
    IN  /\ updating.pc = "idle"
        /\ IF DueDateInvalid(req) \/ g.err # NoErr
           THEN /\ call' = Call("update", user, id, req, "", NoProvider, <<FALSE, FALSE>>)
                /\ resp' = api_UpdateTask(tasks, user, id, req, <<FALSE, FALSE>>).resp
                /\ updating' = NoUpdate
           ELSE /\ updating' = [pc |-> "save", user |-> user, id |-> id, req |-> req, task |-> UpdateTask_existingTask(g.task, task)]
                /\ UNCHANGED <<call, resp>>
        /\ UNCHANGED <<tasks, nextId, deleted, users, reg, client>>

\* taskRepo.UpdateTask(existingTask), and the handler's answer
UpdateTask_Save(fault) ==
    LET r == TaskRepository_UpdateTask(tasks, updating.task, fault)
    IN  /\ updating.pc = "save"
        /\ tasks' = r.db
        /\ call' = Call("update", updating.user, updating.id, updating.req, "", NoProvider, <<FALSE, fault>>)
        /\ resp' = IF r.err # NoErr THEN ErrorResponse(r.err)
                   ELSE Response(200, NoErr, WithDueDate(UpdateTask_task(updating.user, updating.req, updating.id), updating.req), <<>>, {})
        /\ updating' = NoUpdate
        /\ UNCHANGED <<nextId, deleted, users, reg, client>>

\* the bodies of POST /tasks in this specification: the valid ones
RaceBodies == {req \in CreateBodies : ~DueDateInvalid(req) /\ req.title # NilString}

\* the bodies of PUT /tasks/:id in this specification: one valid, one not
RaceUpdates == {req \in UpdateBodies : req.description = NilString}

NextRace ==
    \/ \E user \in Users, req \in RaceBodies : CreateTask(user, req, FALSE)
    \/ \E user \in Users, id \in TaskIds, req \in RaceUpdates : UpdateTask_Read(user, id, req)
    \/ \E fault \in BOOLEAN : UpdateTask_Save(fault)
    \/ \E user \in Users, id \in TaskIds, fault \in BOOLEAN : DeleteTask_Recorded(user, id, fault)
    \/ \E user \in Users, id \in TaskIds : GetTaskByID(user, id, FALSE)
    \/ \E user \in Users : GetTasks(user, FALSE)

SpecRace == Init /\ [][NextRace]_vars

(***************************************************************************)
(* SpecDeleted: the handlers that read and write single rows, each in one  *)
(* step, with the history of the deletions.                                *)
(***************************************************************************)
NextDeleted ==
    \/ \E user \in Users, req \in RaceBodies : CreateTask(user, req, FALSE)
    \/ \E user \in Users, fault \in BOOLEAN : GetTasks(user, fault)
    \/ \E user \in Users, id \in TaskIds, fault \in BOOLEAN : GetTaskByID(user, id, fault)
    \/ \E user \in Users, id \in TaskIds, req \in UpdateBodies : \E faults \in UpdateFaultsOf(req) : UpdateTask(user, id, req, faults)
    \/ \E user \in Users, id \in TaskIds, fault \in BOOLEAN : DeleteTask_Recorded(user, id, fault)

SpecDeleted == Init /\ [][NextDeleted]_vars

(***************************************************************************)
(* Properties of POST /tasks/from-text, checked under SpecExtract.         *)
(***************************************************************************)
\* C1: when the extractor returns an error (transport, non-success status,
\* envelope or parse failure), ExtractAndCreateTasks returns an error and no
\* tasks, creates nothing, and the task table is as it was before the call.
C1_ExtractorErrorLeavesStore ==
    [][(call'.op = "extract" /\ ExtractTasks(call'.provider).err # NoErr) =>
          /\ resp'.status = 500
          /\ resp'.err = ErrExtractPrefix \o ExtractTasks(call'.provider).err
          /\ resp'.tasks = <<>>
          /\ tasks' = tasks
          /\ nextId' = nextId]_vars

\* an extraction whose provider content did not parse, on a table that holds tasks
C1_Witness ==
    /\ call.op = "extract"
    /\ ExtractTasks(call.provider).err = ErrUnmarshal
    /\ resp.status = 500
    /\ resp.tasks = <<>>
    /\ tasks # {}

\* C2: when the extraction is well formed and no CreateTask fails, a call with N
\* candidates adds exactly N rows to the table, keeps every row that was there,
\* returns N tasks, and the returned ids are pairwise distinct, are the ids of
\* the added rows and are the id of no row the table held before.
C2_ExtractPersistsEachCandidate ==
    [][(/\ call'.op = "extract"
        /\ ExtractTasks(call'.provider).err = NoErr
        /\ \A i \in 1..Len(call'.faults) : ~call'.faults[i]) =>
          LET N == Len(ExtractTasks(call'.provider).tasks)
              ids == {resp'.tasks[k].id : k \in 1..Len(resp'.tasks)}
          IN  /\ resp'.err = NoErr
              /\ tasks \subseteq tasks'
              /\ Cardinality(tasks' \ tasks) = N
              /\ Len(resp'.tasks) = N
              /\ Cardinality(ids) = N
              /\ ids = {r.id : r \in tasks' \ tasks}
              /\ ids \cap {r.id : r \in tasks} = {}]_vars

\* an extraction without failures that added a task to a table already holding one
C2_Witness ==
    /\ call.op = "extract"
    /\ ExtractTasks(call.provider).err = NoErr
    /\ \A i \in 1..Len(call.faults) : ~call.faults[i]
    /\ Len(resp.tasks) >= 1
    /\ Cardinality(tasks) > Len(resp.tasks)
    /\ \A k \in 1..Len(resp.tasks) : resp.tasks[k] \in tasks

\* C3: whichever CreateTask calls fail, a well-formed extraction is answered
\* without error, and the returned sequence is the candidates whose CreateTask
\* succeeded, in the order of extraction: as many tasks as successes, the k-th
\* returned task made from the k-th successful candidate.
C3_FailedCandidatesSkipped ==
    (call.op = "extract" /\ ExtractTasks(call.provider).err = NoErr) =>
        LET cands == ExtractTasks(call.provider).tasks
            ok == {i \in 1..Len(cands) : ~call.faults[i]}
            kth(k) == CHOOSE i \in ok : Cardinality({j \in ok : j < i}) = k - 1
        IN  /\ resp.status = 201
            /\ resp.err = NoErr
            /\ Len(resp.tasks) = Cardinality(ok)
            /\ \A k \in 1..Len(resp.tasks) :
                  /\ resp.tasks[k].title = cands[kth(k)].Title
                  /\ resp.tasks[k].description = cands[kth(k)].Description
                  /\ \E r \in tasks : r.id = resp.tasks[k].id /\ r.title = cands[kth(k)].Title

\* two candidates, the first CreateTask failed, the second task is the one returned
C3_Witness ==
    /\ call.op = "extract"
    /\ ExtractTasks(call.provider).err = NoErr
    /\ Len(ExtractTasks(call.provider).tasks) = 2
    /\ call.faults = <<TRUE, FALSE>>
    /\ resp.status = 201
    /\ Len(resp.tasks) = 1
    /\ resp.tasks[1].title = ExtractTasks(call.provider).tasks[2].Title
    /\ ExtractTasks(call.provider).tasks[1].Title # ExtractTasks(call.provider).tasks[2].Title

\* C4: when the extractor succeeds with no candidate, ExtractAndCreateTasks
\* returns the empty sequence and no error, and the table is unchanged.
C4_NoCandidatesNoChange ==
    [][(/\ call'.op = "extract"
        /\ ExtractTasks(call'.provider).err = NoErr
        /\ ExtractTasks(call'.provider).tasks = <<>>) =>
          /\ resp'.err = NoErr
          /\ resp'.status = 201
          /\ resp'.tasks = <<>>
          /\ tasks' = tasks]_vars

\* an empty array from the provider, on a table that holds tasks
C4_Witness ==
    /\ call.op = "extract"
    /\ call.provider = ProviderAnswer(<<>>)
    /\ resp.status = 201
    /\ resp.tasks = <<>>
    /\ tasks # {}

\* C5: every row one ExtractAndCreateTasks call adds, and every task it
\* returns, has raw_text equal to the whole text of that call.
C5_RawTextIsInput ==
    [][call'.op = "extract" =>
          /\ \A r \in tasks' \ tasks : r.raw_text = call'.text
          /\ \A k \in 1..Len(resp'.tasks) : resp'.tasks[k].raw_text = call'.text]_vars

\* one call that created two tasks from different candidates, both with its text
C5_Witness ==
    /\ call.op = "extract"
    /\ Len(resp.tasks) = 2
    /\ resp.tasks[1].title # resp.tasks[2].title
    /\ \A k \in 1..2 : resp.tasks[k] \in tasks /\ resp.tasks[k].raw_text = call.text
    /\ call.text # resp.tasks[2].description

\* C11: a candidate whose due date is null (the zero time after decoding)
\* gives a task without due date, in the stored row and in the sequence the
\* finished call returns, whatever the due dates of the other candidates.
C11_NullDueDateStaysNull ==
    (call.op = "extract" /\ ExtractTasks(call.provider).err = NoErr) =>
        LET cands == ExtractTasks(call.provider).tasks
            ok == {i \in 1..Len(cands) : ~call.faults[i]}
            kth(k) == CHOOSE i \in ok : Cardinality({j \in ok : j < i}) = k - 1
        IN  \A k \in 1..Len(resp.tasks) :
                cands[kth(k)].DueDate = ZeroTime =>
                    /\ resp.tasks[k].due_date = NilTime
                    /\ \A r \in tasks : r.id = resp.tasks[k].id => r.due_date = NilTime

\* a dated candidate and an undated one in one call, both created: the undated
\* task is returned without due date
C11_Witness ==
    /\ call.op = "extract"
    /\ Len(call.provider.array) = 2
    /\ Len(resp.tasks) = 2
    /\ \E k \in 1..2 :
          /\ call.provider.array[k].due_date = NilString
          /\ call.provider.array[3 - k].due_date # NilString
          /\ resp.tasks[k].due_date = NilTime
          /\ \E r \in tasks : r.id = resp.tasks[k].id /\ r.due_date = NilTime

\* C12: each task one call persists, and each task in the sequence it returns,
\* carries the due date of the candidate it was made from (null for the zero
\* time, else the candidate's timestamp), whatever candidates come after it.
C12_DueDateOfCandidate ==
    (call.op = "extract" /\ ExtractTasks(call.provider).err = NoErr) =>
        LET cands == ExtractTasks(call.provider).tasks
            ok == {i \in 1..Len(cands) : ~call.faults[i]}
            kth(k) == CHOOSE i \in ok : Cardinality({j \in ok : j < i}) = k - 1
            expected(k) == IF cands[kth(k)].DueDate = ZeroTime THEN NilTime ELSE cands[kth(k)].DueDate
        IN  \A k \in 1..Len(resp.tasks) :
                /\ resp.tasks[k].due_date = expected(k)
                /\ \A r \in tasks : r.id = resp.tasks[k].id => r.due_date = expected(k)

\* C18: a task persisted without priority, by POST /tasks with a body that
\* names no priority or from a candidate whose priority is empty, is read back
\* with priority "medium" (by GET /tasks/:id and in the list of GET /tasks).
C18_PriorityDefaultsToMedium ==
    LET cands == ExtractTasks(call.provider).tasks
        ok == {i \in 1..Len(cands) : ~call.faults[i]}
        kth(k) == CHOOSE i \in ok : Cardinality({j \in ok : j < i}) = k - 1
        read(id) == api_GetTaskByID(tasks, call.user, id, FALSE).resp
        listed(id) == {t \in api_GetTasks(tasks, call.user, FALSE).resp.list : t.id = id}
        medium(id) ==
            /\ read(id).status = 200
            /\ read(id).task.priority = "medium"
            /\ listed(id) # {}
            /\ \A t \in listed(id) : t.priority = "medium"
    IN  /\ (call.op = "create" /\ resp.status = 201 /\ call.req.priority \in {NilString, ""}) =>
              medium(resp.task.id) /\ resp.task.priority = "medium"
        /\ (call.op = "extract" /\ resp.status = 201) =>
              \A k \in 1..Len(resp.tasks) :
                  cands[kth(k)].Priority = "" => medium(resp.tasks[k].id) /\ resp.tasks[k].priority = "medium"

\* a candidate without priority was persisted next to a task created by a
\* POST /tasks that named no priority: both rows have priority "medium"
C18_Witness ==
    /\ call.op = "extract"
    /\ Len(resp.tasks) = 1
    /\ call.provider.array[1].priority = ""
    /\ \E t \in tasks : t.id = resp.tasks[1].id /\ t.priority = "medium"
    /\ \E t \in tasks : t.raw_text = "" /\ t.title = "a" /\ t.priority = "medium"

(***************************************************************************)
(* Properties of the extraction client, checked under SpecProvider.        *)
(***************************************************************************)
\* C13: when the content of a 200 answer is not a JSON array of candidates
\* (prose, JSON cut off, a JSON object, null), ExtractTasks returns the parse
\* error and no candidate.
C13_UnparseableContentIsError ==
    (/\ call.op = "extract"
     /\ ~call.provider.transport /\ call.provider.status = 200
     /\ call.provider.envelope /\ call.provider.choices > 0
     /\ call.provider.content # "array") =>
        /\ ExtractTasks(call.provider).err = ErrUnmarshal
        /\ ExtractTasks(call.provider).tasks = <<>>
        /\ resp.status = 500

\* C14: ExtractTasks returns an error whenever the body of a 200 answer has
\* not the envelope's shape: it does not decode, or it has no choices.
C14_BadEnvelopeIsError ==
    (/\ call.op = "extract"
     /\ ~call.provider.transport /\ call.provider.status = 200
     /\ (~call.provider.envelope \/ call.provider.choices = 0)) =>
        /\ ExtractTasks(call.provider).err # NoErr
        /\ resp.status = 500

\* C15: on a status other than 200, ExtractTasks returns no candidate and an
\* error that carries the status and the body: no answer with another status
\* or another body gives the same error.
C15_StatusErrorCarriesDetail ==
    (call.op = "extract" /\ ~call.provider.transport /\ call.provider.status # 200) =>
        /\ ExtractTasks(call.provider).err # NoErr
        /\ ExtractTasks(call.provider).tasks = <<>>
        /\ resp.status = 500
        /\ resp.tasks = <<>>
        /\ \A p \in ProviderResponses \cup ProviderVariants :
              ExtractTasks(p).err = ExtractTasks(call.provider).err =>
                  p.status = call.provider.status /\ p.body = call.provider.body

\* a 429 answer, on a table that holds tasks
C15_Witness ==
    /\ call.op = "extract"
    /\ call.provider.status = 429
    /\ call.provider.body = "rate limited"
    /\ resp.status = 500
    /\ resp.tasks = <<>>
    /\ tasks # {}

(***************************************************************************)
(* Properties of ownership, checked under Spec.                            *)
(***************************************************************************)
\* C6: in every reachable state, for a stored task t and a requester who is
\* not its owner, GET, PUT and DELETE of t's id fail, and t is still in the
\* table with every field as it was.
C6_OtherUsersTaskUntouched ==
    [][\A t \in tasks :
          (/\ call'.op \in {"get", "update", "delete"}
           /\ call'.id = t.id
           /\ call'.user # t.user_id) =>
              /\ resp'.err # NoErr
              /\ resp'.status >= 400
              /\ t \in tasks'
              /\ tasks' = tasks]_vars

\* a DELETE of another user's task that the database did not fail: refused, the row is there
C6_Witness ==
    /\ call.op = "delete"
    /\ call.faults = <<FALSE>>
    /\ \E t \in tasks : t.id = call.id /\ t.user_id # call.user
    /\ resp.status = 404

\* C7: in every reachable state, for every user u, the list GetTasksByUserID(u)
\* returns holds every stored task whose user_id is u and no other task.
C7_ListIsOwnTasks ==
    \A u \in Users :
        LET r == api_GetTasks(tasks, u, FALSE).resp
        IN  /\ r.status = 200
            /\ \A t \in tasks : t.user_id = u => t \in r.list
            /\ \A t \in r.list : t \in tasks /\ t.user_id = u

\* a list answered while the table holds tasks of the requester and of another user
C7_Witness ==
    /\ call.op = "list"
    /\ resp.status = 200
    /\ resp.list # {}
    /\ \A t \in resp.list : t.user_id = call.user
    /\ \E t \in tasks : t.user_id # call.user

\* C8: in every reachable state, for a stored task t and a requester u who is
\* not its owner, the responses of GET, PUT and DELETE of t's id are the
\* responses the same requests get from the table without t; when the database
\* does not fail they are 404 with "task not found or unauthorized".
C8_ForeignTaskLooksAbsent ==
    \A t \in tasks : \A u \in Users \ {t.user_id} :
        LET without == tasks \ {t}
        IN  /\ \A fault \in BOOLEAN :
                  /\ api_GetTaskByID(tasks, u, t.id, fault).resp = api_GetTaskByID(without, u, t.id, fault).resp
                  /\ api_DeleteTask(tasks, u, t.id, fault).resp = api_DeleteTask(without, u, t.id, fault).resp
            /\ \A req \in UpdateBodies : \A faults \in UpdateFaultsOf(req) :
                  api_UpdateTask(tasks, u, t.id, req, faults).resp = api_UpdateTask(without, u, t.id, req, faults).resp
            /\ api_GetTaskByID(tasks, u, t.id, FALSE).resp = Response(404, ErrNotFoundOrUnauthorized, ZeroTask, <<>>, {})
            /\ api_DeleteTask(tasks, u, t.id, FALSE).resp = Response(404, ErrNotFoundOrUnauthorized, ZeroTask, <<>>, {})
            /\ \A req \in UpdateBodies : ~DueDateInvalid(req) =>
                  api_UpdateTask(tasks, u, t.id, req, <<FALSE, FALSE>>).resp = Response(404, ErrNotFoundOrUnauthorized, ZeroTask, <<>>, {})

\* a GET of another user's task, answered 404 with the message of a missing task
C8_Witness ==
    /\ call.op = "get"
    /\ call.faults = <<FALSE>>
    /\ \E t \in tasks : t.id = call.id /\ t.user_id # call.user
    /\ resp.status = 404
    /\ resp.err = ErrNotFoundOrUnauthorized

\* C9: no step changes the user_id of a stored task: a row that is in the
\* table before and after a request has the same user_id, whatever user_id the
\* request carries.
C9_OwnerNeverChanges ==
    [][\A t \in tasks : \A t2 \in tasks' : t2.id = t.id => t2.user_id = t.user_id]_vars

\* a PUT that succeeded with another user's id in its body; the row kept its owner
C9_Witness ==
    /\ call.op = "update"
    /\ resp.status = 200
    /\ call.body_user \notin {"", call.user}
    /\ \E t \in tasks : t.id = call.id /\ t.user_id = call.user /\ t.title = resp.task.title

\* C10: every row POST /tasks or POST /tasks/from-text adds, and every task
\* they return, has user_id equal to the authenticated user of the request,
\* whatever user_id the body or the candidate carries.
C10_CreatorIsOwner ==
    [][call'.op \in {"create", "extract"} =>
          /\ \A t \in tasks' \ tasks : t.user_id = call'.user
          /\ resp'.status = 201 =>
                /\ call'.op = "create" => resp'.task.user_id = call'.user
                /\ \A k \in 1..Len(resp'.tasks) : resp'.tasks[k].user_id = call'.user]_vars

\* a POST /tasks whose body named another user: the created row belongs to the requester
C10_Witness ==
    /\ call.op = "create"
    /\ resp.status = 201
    /\ call.body_user \notin {"", call.user}
    /\ resp.task \in tasks
    /\ resp.task.user_id = call.user

(***************************************************************************)
(* Properties of the task handlers, checked under Spec.                    *)
(***************************************************************************)
\* C16: PUT /tasks/:id is a partial update: after a successful request the
\* stored task has the value of the request in every field the body names, and
\* its previous value in every field the body does not name (title,
\* description, due_date, priority, raw_text), in completed and in created_at.
C16_PartialUpdateKeepsOtherFields ==
    [][(call'.op = "update" /\ resp'.status = 200) =>
          \A t \in tasks : t.id = call'.id =>
              \E t2 \in tasks' :
                  /\ t2.id = t.id
                  /\ t2.title = IF call'.req.title = NilString THEN t.title ELSE call'.req.title
                  /\ t2.description = IF call'.req.description = NilString THEN t.description ELSE call'.req.description
                  /\ t2.due_date = IF call'.req.due_date = NilString THEN t.due_date ELSE ParseRFC3339(call'.req.due_date).time
                  /\ t2.priority = IF call'.req.priority = NilString THEN t.priority ELSE call'.req.priority
                  /\ t2.raw_text = IF call'.req.raw_text = NilString THEN t.raw_text ELSE call'.req.raw_text
                  /\ t2.completed = t.completed
                  /\ t2.created_at = t.created_at]_vars

\* C17: the task a successful PUT /tasks/:id returns is the stored row after
\* the update, equal to it in every field.
C17_UpdateReturnsStoredTask ==
    (call.op = "update" /\ resp.status = 200) =>
        /\ resp.task.id = call.id
        /\ resp.task \in tasks

\* C19: every task POST /tasks creates has an empty raw_text, whatever the
\* body contains: the task returned and the row stored.
C19_ManualTaskHasNoRawText ==
    (call.op = "create" /\ resp.status = 201) =>
        /\ resp.task.raw_text = ""
        /\ \A t \in tasks : t.id = resp.task.id => t.raw_text = ""

\* C20: when a statement that create, get, update or delete sends to the
\* database fails while the row asked for is there and is the requester's, the
\* caller gets that storage error, never "task not found or unauthorized".
C20_StorageErrorSurfaced ==
    LET present == \E t \in tasks : t.id = call.id /\ t.user_id = call.user
        failed ==
            \/ call.op = "create" /\ call.faults[1] /\ resp.status # 400
            \/ call.op \in {"get", "delete"} /\ call.faults[1] /\ present
            \/ call.op = "update" /\ (call.faults[1] \/ call.faults[2]) /\ present
    IN  failed =>
            /\ resp.err = ErrDB
            /\ resp.err # ErrNotFoundOrUnauthorized
            /\ resp.status = 500

\* C21: a DELETE answered 204 removes the row, and from then on the task is
\* gone for its owner: no row with its id is in the table, GET /tasks/:id is
\* answered 404 "task not found or unauthorized" (500 when the database fails
\* the query), GET /tasks does not list it, and another DELETE is answered 404
\* "task not found or unauthorized".
C21_DeletedTaskIsGone ==
    [][/\ (call'.op = "delete" /\ resp'.status = 204) =>
              /\ \E t \in tasks : t.id = call'.id /\ t.user_id = call'.user
              /\ ~\E t \in tasks' : t.id = call'.id
       /\ \A d \in deleted :
              /\ ~\E t \in tasks' : t.id = d.id
              /\ (call'.op = "get" /\ call'.id = d.id /\ call'.user = d.user) =>
                    /\ resp'.status = IF call'.faults[1] THEN 500 ELSE 404
                    /\ ~call'.faults[1] => resp'.err = ErrNotFoundOrUnauthorized
              /\ (call'.op = "list" /\ call'.user = d.user) =>
                    \A t \in resp'.list : t.id # d.id
              /\ (call'.op = "delete" /\ call'.id = d.id /\ call'.user = d.user) =>
                    /\ resp'.status = 404
                    /\ resp'.err = ErrNotFoundOrUnauthorized]_vars

\* the second DELETE of a task by its owner, answered 404
C21_Witness ==
    /\ call.op = "delete"
    /\ call.faults = <<FALSE>>
    /\ [id |-> call.id, user |-> call.user] \in deleted
    /\ resp.status = 404
    /\ resp.err = ErrNotFoundOrUnauthorized

C23_LoginFailuresAlike ==
    \A email \in Emails, password \in Passwords, fault \in BOOLEAN :
        LET r == AuthService_LoginUser(users, email, password, fault)
            matches == \E u \in users : u.email = email /\ u.password_hash = GenerateFromPassword(password)
        IN  /\ (r.err = NoErr) = (matches /\ ~fault)
            /\ r.err = NoErr => \E u \in users : u.email = email /\ r.token = SignedString(u.id)
            /\ r.err # NoErr => r = [token |-> "", err |-> ErrInvalidCredentials]

\* one worker logged in with a wrong password, the other with an email that
\* has no user: both hold the same error and no token
C23_Witness ==
    \E w, v \in Workers :
        /\ reg[w].op = "login" /\ reg[v].op = "login"
        /\ ~reg[w].fault /\ ~reg[v].fault
        /\ \E u \in users : u.email = reg[w].email /\ u.password_hash # GenerateFromPassword(reg[w].password)
        /\ ~\E u \in users : u.email = reg[v].email
        /\ reg[w].err = ErrInvalidCredentials /\ reg[v].err = ErrInvalidCredentials
        /\ reg[w].token = "" /\ reg[v].token = ""

\* C29: under every interleaving of the steps of concurrent RegisterUser
\* calls, no two rows of the users table have the same email, and no two
\* workers hold a successful registration of the same email.
C29_OneUserPerEmail ==
    /\ \A u1, u2 \in users : u1.email = u2.email => u1 = u2
    /\ \A w, v \in Workers :
          (/\ w # v
           /\ reg[w].op = "register" /\ reg[v].op = "register"
           /\ reg[w].pc = "idle" /\ reg[v].pc = "idle"
           /\ reg[w].err = NoErr /\ reg[v].err = NoErr) =>
              reg[w].email # reg[v].email

\* two registrations of one email both passed the check; one created the
\* user, the other was refused by the table
C29_Witness ==
    \E w, v \in Workers :
        /\ reg[w].op = "register" /\ reg[v].op = "register"
        /\ reg[w].email = reg[v].email
        /\ reg[w].pc = "idle" /\ reg[v].pc = "idle"
        /\ reg[w].err = NoErr
        /\ reg[v].err = ErrDuplicateKey
        /\ Cardinality({u \in users : u.email = reg[w].email}) = 1

(***************************************************************************)
(* Properties of TaskHandler, checked under SpecHandlers.                  *)
(***************************************************************************)
\* C27: TaskHandler.GetTask and TaskHandler.DeleteTask, called by user u for a
\* stored task t that u owns (the database not failing), reach the service
\* with id t and owner u: GetTask answers 200 with t, DeleteTask answers 204
\* and t is no longer in the table.
C27_HandlerReachesOwnTask ==
    [][\A t \in tasks :
          (/\ call'.op \in {"handler_get", "handler_delete"}
           /\ call'.id = t.id
           /\ call'.user = t.user_id
           /\ ~call'.faults[1]) =>
              /\ call'.op = "handler_get" => resp'.status = 200 /\ resp'.task = t
              /\ call'.op = "handler_delete" => resp'.status = 204 /\ t \notin tasks']_vars

(***************************************************************************)
(* Properties of the model call, checked under SpecClient and, for the     *)
(* termination, under FairSpecClient.                                      *)
(***************************************************************************)
\* C24: a call of ExtractTasks sends at most one request to the provider and
\* sends none after a failure, and a call of ExtractAndCreateTasks that has
\* returned has called the extractor exactly once.
C24_OneRequestPerCall ==
    /\ client.requests <= 1
    /\ client.extractions <= 1
    /\ (call.op = "extract" /\ client.pc = "idle") => client.requests = 1 /\ client.extractions = 1

C24_Witness ==
    /\ call.op = "extract"
    /\ client.pc = "idle"
    /\ call.provider.status = 500
    /\ resp.status = 500
    /\ client.requests = 1

\* C25: when the inbound request is cancelled while the model call is in
\* flight, no response of the provider is used afterwards, the call returns
\* the error of the failed send, answered 500, and the tasks table is as it
\* was.
C25_CancelAborts ==
    [][(client.cancelled /\ client.pc = "waiting") =>
          /\ client'.pc \in {"waiting", "idle"}
          /\ client'.pc = "idle" =>
                /\ resp'.status = 500
                /\ resp'.err = ErrExtractPrefix \o ErrTransport
                /\ resp'.tasks = <<>>
                /\ tasks' = tasks
                /\ nextId' = nextId]_vars

C25_Witness ==
    /\ client.cancelled
    /\ client.pc = "idle"
    /\ call.op = "extract"
    /\ resp.status = 500
    /\ tasks # {}

\* C26: every call of ExtractAndCreateTasks returns in the end, also when the
\* provider never responds and the inbound request is never cancelled.
C26_CallReturns == (client.pc = "waiting") ~> (client.pc = "idle")

(***************************************************************************)
(* Properties of the update racing the delete, checked under SpecRace.     *)
(***************************************************************************)
\* C30: once DELETE /tasks/:id was answered 204 to its owner, GetTaskByID by
\* that owner does not return the task and GetTasksByUserID does not list
\* it, whatever update was in flight at the time.
C30_DeletedStaysGone ==
    \A d \in deleted :
        /\ TaskService_GetTaskByID(tasks, d.id, d.user, FALSE).err # NoErr
        /\ \A t \in TaskService_GetTasksByUserID(tasks, d.user, FALSE).tasks : t.id # d.id

(***************************************************************************)
(* The returned tasks against the stored rows, checked under SpecExtract.  *)
(***************************************************************************)
\* C28: when ExtractAndCreateTasks has returned, the tasks it returned are
\* exactly the rows it added: each returned task is a row of the table, field
\* by field, the rows added are the returned tasks and no others (none for a
\* candidate whose CreateTask failed), and the rows there before are kept.
C28_ReturnedAreTheRowsAdded ==
    [][(call'.op = "extract" /\ resp'.status = 201) =>
          /\ \A k \in 1..Len(resp'.tasks) : resp'.tasks[k] \in tasks'
          /\ tasks' \ tasks = {resp'.tasks[k] : k \in 1..Len(resp'.tasks)}
          /\ Cardinality(tasks' \ tasks) = Len(resp'.tasks)
          /\ tasks \subseteq tasks']_vars

=============================================================================
